---- MODULE Spec2Model ----
(***************************************************************************)
(* A model of the separate-chaining hash table of src/HashTable.c.         *)
(*                                                                         *)
(* Pointers are small integers, NULL is 0.  A key pointer k points to the  *)
(* integer KeyContent(k); the caller-supplied callbacks are h(k) = k and   *)
(* cmp(a, b) = a - b on the contents.  A value pointer is one of           *)
(* 1..MaxValue.  A bucket's chain is the sequence of its elements from the *)
(* head on; the i-th element's next pointer is NULL exactly when i is the  *)
(* length of the chain.                                                    *)
(***************************************************************************)
EXTENDS Integers, Sequences, FiniteSets, TLC

\* ------------------------------------------------------------------ bounds
MaxKey == 4
MaxValue == 2
MaxInitCapacity == 5
MaxCapacity == 8
MaxDoublings == 20
ProbeWindow == 2
MaxAllocations == 2
MaxGrownCapacity == 10

\* --------------------------------------------------------------- constants
NULL == 0
INSERTED == -1
SIZE_ERROR == -1
Handle == 1
LOAD_FACTOR_BITS == 11744051
FLT_EPSILON_BITS == 2
FLT_MANT_DIG == 24
UNDEFINED == -2

Keys == 1..MaxKey
Values == 1..MaxValue

VARIABLES capacity, elementsArray, nbElements, last, run

vars == <<capacity, elementsArray, nbElements, last, run>>

\* ------------------------------------------------------- caller's callbacks
\* The integers the caller's key pointers 1, 2, ... point to.
KeyContents == <<0, 1, 2, 5, 6, 3, 4, 7>>

KeyContent(key) == KeyContents[key]

hashFunction(key) == KeyContent(key)

compareFunction(a, b) == KeyContent(a) - KeyContent(b)

\* ------------------------------------------------------------------- table
Element(key, value) == [key |-> key, value |-> value]

HashTable_t(cap, arr, nb) == [capacity |-> cap, elementsArray |-> arr, nbElements |-> nb]

Table == HashTable_t(capacity, elementsArray, nbElements)

EmptyArray(cap) == [i \in 0..(cap - 1) |-> <<>>]

createHashTable(cap) == HashTable_t(cap, EmptyArray(cap), 0)

\* malloc and calloc: mem is the number of allocations that still succeed,
\* a negative mem means that no allocation fails.
AllocOk(mem) == mem # 0

AllocRest(mem) == IF mem > 0 THEN mem - 1 ELSE mem

hashKey(t, key) == IF key < t.capacity THEN key ELSE key % t.capacity

\* (float)n / (float)c in units of 2^-24, rounded to nearest-even, for
\* c/2 <= n < c (the quotient lies in [0.5, 1), where a float has 24
\* fractional bits): long division, one bit at a time.
RECURSIVE DivBits(_, _, _, _)
DivBits(r, c, q, bits) ==
   IF bits = 0
   THEN IF 2 * r > c \/ (2 * r = c /\ q % 2 = 1) THEN q + 1 ELSE q
   ELSE IF 2 * r >= c
        THEN DivBits(2 * r - c, c, 2 * q + 1, bits - 1)
        ELSE DivBits(2 * r, c, 2 * q, bits - 1)

FloatQuotientBits(n, c) == DivBits(n, c, 0, FLT_MANT_DIG)

\* The test on the current load nb / cap instead of the prospective (nb + 1) / cap.
NeedsResizeCurrentLoad(nb, cap) == 10 * nb > 7 * cap

\* (loadFactor - LOAD_FACTOR) > FLT_EPSILON with loadFactor = (float)(nb + 1) / cap.
\* A quotient >= 1 (or 1/0 = +inf) exceeds 0.7f by at least 0.3; a quotient
\* below 0.5 is below 0.7f; in between both operands are multiples of 2^-24
\* and the subtraction is exact.
NeedsResize(nb, cap) ==
   IF nb + 1 >= cap THEN TRUE
   ELSE IF 2 * (nb + 1) < cap THEN FALSE
   ELSE FloatQuotientBits(nb + 1, cap) - LOAD_FACTOR_BITS > FLT_EPSILON_BITS

Outcome(t, ret, mem) == [t |-> t, ret |-> ret, mem |-> mem]

\* The first index i < Len(chain) whose key is equivalent to key, or 0: the
\* loop of insertElement stops at the element whose next is NULL and never
\* compares that one.
InsertMatch(chain, key) ==
   LET hits == {i \in 1..(Len(chain) - 1) : compareFunction(chain[i].key, key) = 0}
   IN IF hits = {} THEN 0 ELSE CHOOSE i \in hits : \A j \in hits : i <= j

RECURSIVE insertElement(_, _, _, _, _)
RECURSIVE reHashTable(_, _, _)
RECURSIVE ReInsert(_, _, _, _)

insertElement(hashTable, t, key, value, mem) ==
   IF hashTable = NULL \/ key = NULL \/ value = NULL
   THEN Outcome(t, NULL, mem)
   ELSE LET r == IF NeedsResize(t.nbElements, t.capacity)
                 THEN reHashTable(hashTable, t, mem)
                 ELSE Outcome(t, 0, mem)
        IN IF r.ret # 0
           THEN Outcome(r.t, NULL, r.mem)
           ELSE LET t1 == r.t
                    index == hashKey(t1, hashFunction(key))
                    chain == t1.elementsArray[index]
                    m == InsertMatch(chain, key)
                IN IF m # 0
                   THEN Outcome(HashTable_t(t1.capacity,
                                   [t1.elementsArray EXCEPT ![index][m].value = value],
                                   t1.nbElements + 1),
                                chain[m].value, r.mem)
                   ELSE IF ~AllocOk(r.mem)
                        THEN Outcome(t1, NULL, AllocRest(r.mem))
                        ELSE Outcome(HashTable_t(t1.capacity,
                                        [t1.elementsArray EXCEPT
                                            ![index] = Append(chain, Element(key, value))],
                                        t1.nbElements + 1),
                                     INSERTED, AllocRest(r.mem))

\* The elements of the old array in the order the loops of reHashTable visit them.
RECURSIVE Drain(_, _, _)
Drain(arr, i, cap) == IF i >= cap THEN <<>> ELSE arr[i] \o Drain(arr, i + 1, cap)

ReInsert(hashTable, t, old, mem) ==
   IF old = <<>>
   THEN Outcome(t, 0, mem)
   ELSE LET r == insertElement(hashTable, t, Head(old).key, Head(old).value, mem)
        IN IF r.ret = NULL
           THEN Outcome(r.t, -3, r.mem)
           ELSE ReInsert(hashTable, r.t, Tail(old), r.mem)

\* reHashTable without line 296, the reset of nbElements.
reHashTableKeepsCount(hashTable, t, mem) ==
   IF hashTable = NULL
   THEN Outcome(t, -1, mem)
   ELSE IF ~AllocOk(mem)
        THEN Outcome(t, -2, AllocRest(mem))
        ELSE ReInsert(hashTable,
                      HashTable_t(t.capacity * 2, EmptyArray(t.capacity * 2), t.nbElements),
                      Drain(t.elementsArray, 0, t.capacity), AllocRest(mem))

\* reHashTable that grows the array and leaves every chain in the bucket it
\* had, without the re-insertions of lines 302-325.
reHashTableKeepsBuckets(hashTable, t, mem) ==
   IF hashTable = NULL
   THEN Outcome(t, -1, mem)
   ELSE IF ~AllocOk(mem)
        THEN Outcome(t, -2, AllocRest(mem))
        ELSE Outcome(HashTable_t(t.capacity * 2,
                                 [i \in 0..(t.capacity * 2 - 1) |->
                                    IF i < t.capacity THEN t.elementsArray[i] ELSE <<>>],
                                 t.nbElements),
                     0, AllocRest(mem))

\* reHashTable that resets nbElements (line 296) and relinks the old elements
\* in their new buckets without counting them again.
reHashTableLosesCount(hashTable, t, mem) ==
   IF hashTable = NULL
   THEN Outcome(t, -1, mem)
   ELSE IF ~AllocOk(mem)
        THEN Outcome(t, -2, AllocRest(mem))
        ELSE LET r == ReInsert(hashTable, createHashTable(t.capacity * 2),
                               Drain(t.elementsArray, 0, t.capacity), AllocRest(mem))
             IN Outcome(HashTable_t(r.t.capacity, r.t.elementsArray, 0), r.ret, r.mem)

\* reHashTable with the reset of nbElements (line 296) ahead of the test of
\* the calloc result (line 286).
reHashTableResetsCountFirst(hashTable, t, mem) ==
   IF hashTable = NULL
   THEN Outcome(t, -1, mem)
   ELSE IF ~AllocOk(mem)
        THEN Outcome(HashTable_t(t.capacity, t.elementsArray, 0), -2, AllocRest(mem))
        ELSE ReInsert(hashTable, createHashTable(t.capacity * 2),
                      Drain(t.elementsArray, 0, t.capacity), AllocRest(mem))

\* reHashTable with newCapacity = capacity * 2 + 1 at line 281.
reHashTableOddCapacity(hashTable, t, mem) ==
   IF hashTable = NULL
   THEN Outcome(t, -1, mem)
   ELSE IF ~AllocOk(mem)
        THEN Outcome(t, -2, AllocRest(mem))
        ELSE ReInsert(hashTable, createHashTable(t.capacity * 2 + 1),
                      Drain(t.elementsArray, 0, t.capacity), AllocRest(mem))

reHashTable(hashTable, t, mem) ==
   IF hashTable = NULL
   THEN Outcome(t, -1, mem)
   ELSE LET newCapacity == t.capacity * 2
        IN IF ~AllocOk(mem)
           THEN Outcome(t, -2, AllocRest(mem))
           ELSE ReInsert(hashTable, createHashTable(newCapacity),
                         Drain(t.elementsArray, 0, t.capacity), AllocRest(mem))

\* A walk to the last element with an equivalent key instead of the first.
WalkStopAtLastMatch(chain, key) ==
   LET hits == {i \in 1..Len(chain) : compareFunction(chain[i].key, key) = 0}
   IN IF hits = {} THEN Len(chain) ELSE CHOOSE i \in hits : \A j \in hits : i >= j

\* A walk that looks at the head of the chain only.
WalkStopAtHead(chain, key) == 1

\* The index of the element the loops of removeElement and hasKey stop at: the
\* first one with an equivalent key, or else the last one.
WalkStop(chain, key) ==
   LET hits == {i \in 1..Len(chain) : compareFunction(chain[i].key, key) = 0}
   IN IF hits = {} THEN Len(chain) ELSE CHOOSE i \in hits : \A j \in hits : i <= j

DropAt(chain, i) == SubSeq(chain, 1, i - 1) \o SubSeq(chain, i + 1, Len(chain))

\* removeElement without the comparison of line 211 after the loop.
removeElementUnchecked(hashTable, t, key) ==
   IF hashTable = NULL \/ key = NULL
   THEN Outcome(t, NULL, 0)
   ELSE LET index == hashKey(t, hashFunction(key))
            chain == t.elementsArray[index]
        IN IF chain = <<>>
           THEN Outcome(t, NULL, 0)
           ELSE LET i == WalkStop(chain, key)
                IN Outcome(HashTable_t(t.capacity,
                              [t.elementsArray EXCEPT ![index] = DropAt(chain, i)],
                              t.nbElements - 1),
                           chain[i].value, 0)

removeElement(hashTable, t, key) ==
   IF hashTable = NULL \/ key = NULL
   THEN Outcome(t, NULL, 0)
   ELSE LET index == hashKey(t, hashFunction(key))
            chain == t.elementsArray[index]
        IN IF chain = <<>>
           THEN Outcome(t, NULL, 0)
           ELSE LET i == WalkStop(chain, key)
                IN IF compareFunction(chain[i].key, key) = 0
                   THEN Outcome(HashTable_t(t.capacity,
                                   [t.elementsArray EXCEPT ![index] = DropAt(chain, i)],
                                   t.nbElements - 1),
                                chain[i].value, 0)
                   ELSE Outcome(t, NULL, 0)

getNumElements(hashTable, t) == IF hashTable = NULL THEN SIZE_ERROR ELSE t.nbElements

\* hasKey with the loop of insertElement, which never compares the last element.
hasKeySkipsLast(hashTable, t, key) ==
   IF hashTable = NULL \/ key = NULL
   THEN FALSE
   ELSE InsertMatch(t.elementsArray[hashKey(t, hashFunction(key))], key) # 0

hasKey(hashTable, t, key) ==
   IF hashTable = NULL \/ key = NULL
   THEN FALSE
   ELSE LET chain == t.elementsArray[hashKey(t, hashFunction(key))]
        IN IF chain = <<>>
           THEN FALSE
           ELSE compareFunction(chain[WalkStop(chain, key)].key, key) = 0

\* Some re-insertion of the elements old into t, in the loops of reHashTable,
\* enters insertElement with the load-factor test satisfied, and so calls
\* reHashTable again.
RECURSIVE ReInsertResizes(_, _, _)
ReInsertResizes(hashTable, t, old) ==
   /\ old # <<>>
   /\ \/ NeedsResize(t.nbElements, t.capacity)
      \/ ReInsertResizes(hashTable,
                         insertElement(hashTable, t, Head(old).key, Head(old).value, -1).t,
                         Tail(old))

\* ------------------------------------------------------------ state machine
\* last is the record of the call that has just returned: its arguments, its
\* result and the table at its entry (pre).  The caller makes a call when it
\* holds no such record (op = "none") and drops the record before its next
\* call, so that a state tells which call produced it.
Call(op, hashTable, key, value, ret, pre) ==
   [op |-> op, hashTable |-> hashTable, key |-> key, value |-> value,
    ret |-> ret, pre |-> pre]

NoCall(t) == Call("none", NULL, NULL, NULL, NULL, t)

Idle == last.op = "none"

Chain(t, i) == t.elementsArray[i]

Buckets(t) == 0..(t.capacity - 1)

StoredKey(t, key) ==
   \E i \in Buckets(t) : \E j \in 1..Len(Chain(t, i)) :
      compareFunction(Chain(t, i)[j].key, key) = 0

\* run counts the calls so far while they all were insertElement calls that
\* added a key not equivalent to any earlier one; it is -1 from the first
\* other mutating call on.
Init ==
   /\ capacity \in 1..MaxInitCapacity
   /\ elementsArray = EmptyArray(capacity)
   /\ nbElements = 0
   /\ last = NoCall(createHashTable(capacity))
   /\ run = 0

Store(t) ==
   /\ capacity' = t.capacity
   /\ elementsArray' = t.elementsArray
   /\ nbElements' = t.nbElements

\* A call that would double the capacity beyond MaxCapacity is left out.
InsertElement(key, value) ==
   LET r == insertElement(Handle, Table, key, value, -1)
   IN /\ Idle
      /\ NeedsResize(nbElements, capacity) => capacity * 2 <= MaxCapacity
      /\ Store(r.t)
      /\ last' = Call("insertElement", Handle, key, value, r.ret, Table)
      /\ run' = IF run >= 0 /\ ~StoredKey(Table, key) THEN run + 1 ELSE -1

InsertElementInvalid(hashTable, key, value) ==
   LET r == insertElement(hashTable, Table, key, value, -1)
   IN /\ Idle
      /\ hashTable = NULL \/ key = NULL \/ value = NULL
      /\ Store(r.t)
      /\ last' = Call("insertElement", hashTable, key, value, r.ret, Table)
      /\ UNCHANGED run

RemoveElement(key) ==
   LET r == removeElement(Handle, Table, key)
   IN /\ Idle
      /\ Store(r.t)
      /\ last' = Call("removeElement", Handle, key, NULL, r.ret, Table)
      /\ run' = -1

RemoveElementInvalid(hashTable, key) ==
   LET r == removeElement(hashTable, Table, key)
   IN /\ Idle
      /\ hashTable = NULL \/ key = NULL
      /\ Store(r.t)
      /\ last' = Call("removeElement", hashTable, key, NULL, r.ret, Table)
      /\ UNCHANGED run

HasKey(hashTable, key) ==
   /\ Idle
   /\ last' = Call("hasKey", hashTable, key, NULL,
                   IF hasKey(hashTable, Table, key) THEN 1 ELSE 0, Table)
   /\ UNCHANGED <<capacity, elementsArray, nbElements, run>>

GetNumElements(hashTable) ==
   /\ Idle
   /\ last' = Call("getNumElements", hashTable, NULL, NULL,
                   getNumElements(hashTable, Table), Table)
   /\ UNCHANGED <<capacity, elementsArray, nbElements, run>>

\* The caller drops the record of the call that returned.
Return ==
   /\ ~Idle
   /\ last' = NoCall(Table)
   /\ UNCHANGED <<capacity, elementsArray, nbElements, run>>

InvalidInsertArgs == {<<NULL, 1, 1>>, <<Handle, NULL, 1>>, <<Handle, 1, NULL>>}

InvalidKeyArgs == {<<NULL, 1>>, <<Handle, NULL>>}

Next ==
   \/ \E key \in Keys, value \in Values : InsertElement(key, value)
   \/ \E a \in InvalidInsertArgs : InsertElementInvalid(a[1], a[2], a[3])
   \/ \E key \in Keys : RemoveElement(key)
   \/ \E a \in InvalidKeyArgs : RemoveElementInvalid(a[1], a[2])
   \/ \E a \in InvalidKeyArgs \cup ({Handle} \X Keys) : HasKey(a[1], a[2])
   \/ \E hashTable \in {NULL, Handle} : GetNumElements(hashTable)
   \/ Return

Spec == Init /\ [][Next]_vars

\* ------------------------------------------- the load-factor test on its own
\* The test of insertElement on the header of a table that earlier doublings
\* and insertions have brought to capacity cap and nbElements nb; its bucket
\* array is not represented.  The test reads nothing else, so it is taken once,
\* beside a table that no call has changed yet.
RECURSIVE Doubled(_, _)
Doubled(cap, e) == IF e = 0 THEN cap ELSE Doubled(2 * cap, e - 1)

ProbeCapacities == {Doubled(c, e) : c \in 1..MaxInitCapacity, e \in 0..MaxDoublings}

\* The counts near the threshold that a table of capacity cap reaches: 0, and
\* nb when the insertElement that counted nb - 1 at its entry did not resize.
ProbeCounts(cap) ==
   {nb \in ((7 * cap) \div 10 - ProbeWindow)..((7 * cap) \div 10 + ProbeWindow) :
       nb >= 0 /\ (nb = 0 \/ ~NeedsResize(nb - 1, cap))}

LoadFactorTest(nb, cap) ==
   /\ Idle
   /\ run = 0
   /\ last' = Call("loadFactor", Handle, NULL, NULL,
                   IF NeedsResize(nb, cap) THEN 1 ELSE 0, HashTable_t(cap, <<>>, nb))
   /\ UNCHANGED <<capacity, elementsArray, nbElements, run>>

NextLoad ==
   \/ Next
   \/ \E cap \in ProbeCapacities : \E nb \in ProbeCounts(cap) : LoadFactorTest(nb, cap)

SpecLoad == Init /\ [][NextLoad]_vars

\* ------------------------------------------------- allocations that fail
\* Which allocation of insertElement(hashTable, t, ...) is the first to fail
\* when mem allocations succeed before: the calloc of the doubled array
\* (reHashTable returns -2), a malloc of a re-insertion (-3), or the malloc of
\* the new element after the load-factor test and the resize, if any.
FailedAllocation(hashTable, t, mem) ==
   LET ret == IF NeedsResize(t.nbElements, t.capacity)
              THEN reHashTable(hashTable, t, mem).ret
              ELSE 0
   IN IF ret = -2 THEN "array" ELSE IF ret = -3 THEN "reinsert" ELSE "element"

\* An insertElement call during which an allocation fails, after mem
\* successful ones; its record tells which one failed.
InsertElementNoMemory(key, value, mem) ==
   LET r == insertElement(Handle, Table, key, value, mem)
   IN /\ Idle
      /\ NeedsResize(nbElements, capacity) => capacity * 2 <= MaxCapacity
      /\ r.ret = NULL
      /\ Store(r.t)
      /\ last' = [op |-> "insertElement", hashTable |-> Handle, key |-> key,
                  value |-> value, ret |-> r.ret, pre |-> Table,
                  failed |-> FailedAllocation(Handle, Table, mem)]
      /\ run' = -1

\* A call that fails stores its value nowhere: the value pointer 1 stands for
\* all of them.
NextFail ==
   \/ Next
   \/ \E key \in Keys, mem \in 0..MaxAllocations : InsertElementNoMemory(key, 1, mem)

SpecFail == Init /\ [][NextFail]_vars

\* ---------------------------------------------------- a table grown further
\* insertElement on a table that may grow up to MaxGrownCapacity.
InsertElementGrown(key, value) ==
   LET r == insertElement(Handle, Table, key, value, -1)
   IN /\ Idle
      /\ NeedsResize(nbElements, capacity) => capacity * 2 <= MaxGrownCapacity
      /\ Store(r.t)
      /\ last' = Call("insertElement", Handle, key, value, r.ret, Table)
      /\ run' = IF run >= 0 /\ ~StoredKey(Table, key) THEN run + 1 ELSE -1

NextGrown ==
   \/ Next
   \/ \E key \in Keys, value \in Values : InsertElementGrown(key, value)

SpecGrown == Init /\ [][NextGrown]_vars

\* ------------------------------------------------ a table of capacity zero
\* createHashTable does not look at capacity: with capacity 0, where
\* calloc(0, ...) returns a pointer, it returns a table of capacity 0.
InitZero ==
   /\ capacity \in 0..MaxInitCapacity
   /\ elementsArray = EmptyArray(capacity)
   /\ nbElements = 0
   /\ last = NoCall(createHashTable(capacity))
   /\ run = 0

Halted == last.ret = UNDEFINED

\* On a table of capacity 0 a call with valid arguments reaches
\* key % hashTable->capacity in hashKey (insertElement after a resize from
\* capacity 0 to capacity 2 * 0): the division by zero is undefined, the
\* build traps or goes on with an index outside the empty array.  The record
\* has UNDEFINED as the result and nothing is said about what follows.
DivideByZero(op, key, value) ==
   /\ Idle
   /\ capacity = 0
   /\ ~(hashFunction(key) < capacity)
   /\ last' = Call(op, Handle, key, value, UNDEFINED, Table)
   /\ UNCHANGED <<capacity, elementsArray, nbElements, run>>

HashingCalls ==
   ({"insertElement"} \X Keys \X Values) \cup ({"removeElement", "hasKey"} \X Keys \X {NULL})

NextZero ==
   \/ capacity > 0 /\ Next
   \/ /\ capacity = 0
      /\ ~Halted
      /\ \/ \E a \in InvalidInsertArgs : InsertElementInvalid(a[1], a[2], a[3])
         \/ \E a \in InvalidKeyArgs : RemoveElementInvalid(a[1], a[2])
         \/ \E a \in InvalidKeyArgs : HasKey(a[1], a[2])
         \/ \E hashTable \in {NULL, Handle} : GetNumElements(hashTable)
         \/ Return
   \/ \E c \in HashingCalls : DivideByZero(c[1], c[2], c[3])

SpecZero == InitZero /\ [][NextZero]_vars

\* ------------------------------------------------------------------ claims
Positions(t) == UNION {{<<i, j>> : j \in 1..Len(Chain(t, i))} : i \in Buckets(t)}

LiveEntries(t) == Cardinality(Positions(t))

Occurrences(t, key, value) ==
   Cardinality({p \in Positions(t) : Chain(t, p[1])[p[2]] = Element(key, value)})

Copies(t, key) ==
   Cardinality({p \in Positions(t) : compareFunction(Chain(t, p[1])[p[2]].key, key) = 0})

ValidInsert ==
   /\ last.op = "insertElement"
   /\ last.hashTable # NULL /\ last.key # NULL /\ last.value # NULL

ValidRemove == last.op = "removeElement" /\ last.hashTable # NULL /\ last.key # NULL

Resized == capacity # last.pre.capacity

\* C1: when key k is stored (once) with value v1, insertElement(t, k, v2)
\* returns v1, neither the sentinel (void*)-1 nor NULL, and afterwards the
\* value of k is v2: a following removeElement(t, k) returns v2.  This holds
\* wherever k sits in its chain.
C1_DuplicateInsertReturnsPrevious ==
   (ValidInsert /\ Copies(last.pre, last.key) = 1) =>
      /\ last.ret = removeElement(Handle, last.pre, last.key).ret
      /\ last.ret \notin {INSERTED, NULL}
      /\ removeElement(Handle, Table, last.key).ret = last.value

\* C2: no bucket chain holds two elements whose keys compare equivalent.
C2_KeysUnique ==
   \A i \in Buckets(Table) : \A j, k \in 1..Len(elementsArray[i]) :
      j # k => compareFunction(elementsArray[i][j].key, elementsArray[i][k].key) # 0

\* C3: the count getNumElements reports is the number of live elements
\* reachable across all bucket chains.
C3_CountIsLiveEntries == getNumElements(Handle, Table) = LiveEntries(Table)

\* C4: after an insertElement(t, k, v) that succeeded, a removeElement(t, k)
\* leaves hasKey(t, k) false and getNumElements one less than right after
\* the insert, whether or not k was stored before the insert.
C4_InsertThenRemove ==
   (ValidInsert /\ last.ret # NULL) =>
      LET r == removeElement(Handle, Table, last.key)
      IN /\ ~hasKey(Handle, r.t, last.key)
         /\ getNumElements(Handle, r.t) = getNumElements(Handle, Table) - 1

\* C5: whenever insertElement(t, k, v) returns a non-NULL result, hasKey(t, k)
\* is true right afterwards, also when the insert resized the table.
C5_InsertThenContains ==
   (last.op = "insertElement" /\ last.ret # NULL) => hasKey(Handle, Table, last.key)

C5_Witness ==
   /\ last.op = "insertElement" /\ last.ret # NULL /\ Resized
   /\ Len(Chain(Table, hashKey(Table, hashFunction(last.key)))) >= 2

\* C6: after n successful insertElement calls with pairwise non-equivalent
\* keys on a fresh table, with no other mutating call, getNumElements is n.
C6_DistinctInsertsCount == run >= 0 => getNumElements(Handle, Table) = run

C6_Witness == run >= 3 /\ last.op = "insertElement" /\ Resized /\ last.pre.nbElements >= 2

\* C7: when an insertElement call resizes the table, every (key, value) pair
\* stored before the call (of a key other than the inserted one) is stored
\* exactly once after it, no other pair appears, and hasKey is true for every
\* key stored before and for the inserted key.
C7_ResizePreservesEntries ==
   (ValidInsert /\ last.ret # NULL /\ Resized) =>
      /\ \A key \in Keys \ {last.key} : \A value \in Values :
            Occurrences(Table, key, value) =
               IF Occurrences(last.pre, key, value) > 0 THEN 1 ELSE 0
      /\ \A key \in Keys :
            (StoredKey(last.pre, key) \/ key = last.key) => hasKey(Handle, Table, key)

\* C8: hasKey(t, k) is true exactly when some live element has a key
\* equivalent to k, so that keys sharing a bucket are all reported present;
\* it is false for a NULL table and for a NULL key.
C8_HasKeyIffStored ==
   /\ \A key \in Keys : hasKey(Handle, Table, key) <=> StoredKey(Table, key)
   /\ \A key \in Keys \cup {NULL} : ~hasKey(NULL, Table, key)
   /\ ~hasKey(Handle, Table, NULL)
   /\ last.op = "hasKey" =>
         last.ret = IF /\ last.hashTable # NULL /\ last.key # NULL
                       /\ StoredKey(last.pre, last.key)
                    THEN 1 ELSE 0

C8_Witness ==
   /\ last.op = "hasKey" /\ last.ret = 1
   /\ LET chain == Chain(Table, hashKey(Table, hashFunction(last.key)))
      IN /\ Len(chain) >= 2
         /\ chain[Len(chain)].key = last.key
         /\ compareFunction(chain[1].key, last.key) # 0

\* C9: removeElement(t, k) for a key with no equivalent key stored returns
\* NULL and changes nothing: count, capacity and every chain stay as they were.
C9_RemoveMissing ==
   (ValidRemove /\ ~StoredKey(last.pre, last.key)) =>
      (last.ret = NULL /\ Table = last.pre)

C9_Witness ==
   /\ ValidRemove /\ ~StoredKey(last.pre, last.key) /\ last.ret = NULL
   /\ Chain(last.pre, hashKey(last.pre, hashFunction(last.key))) # <<>>

\* The call is one that evaluates the load-factor test: an insertElement with
\* valid arguments, or the test on its own.
TestsLoadFactor == ValidInsert \/ last.op = "loadFactor"

Doubles ==
   IF last.op = "loadFactor" THEN last.ret = 1 ELSE capacity = 2 * last.pre.capacity

KeepsCapacity ==
   IF last.op = "loadFactor" THEN last.ret = 0 ELSE capacity = last.pre.capacity

AboveThreshold == 10 * (last.pre.nbElements + 1) > 7 * last.pre.capacity

\* The inserted key lies in the bucket that the capacity after the call gives
\* it: a resize comes before the bucket is located.
LocatedAfterResize ==
   \E j \in 1..Len(Chain(Table, hashKey(Table, hashFunction(last.key)))) :
      Chain(Table, hashKey(Table, hashFunction(last.key)))[j].key = last.key

StoredContents(t) == {KeyContent(key) : key \in {k \in Keys : StoredKey(t, k)}}

\* Capacity 4, h(k) = k, keys 0, 1, 2 inserted in this order: the capacity is 4
\* after the second insert and 8 after the third, and the three keys are present.
Scenario012 ==
   /\ (ValidInsert /\ run = 2 /\ last.pre.capacity = 4 /\ StoredContents(last.pre) = {0}
         /\ KeyContent(last.key) = 1) => capacity = 4
   /\ (ValidInsert /\ run = 3 /\ last.pre.capacity = 4 /\ StoredContents(last.pre) = {0, 1}
         /\ KeyContent(last.key) = 2) =>
         /\ capacity = 8
         /\ \A key \in Keys : KeyContent(key) \in {0, 1, 2} => hasKey(Handle, Table, key)

\* C10 as claimed: insertElement doubles the capacity, before it locates the
\* bucket, exactly when 10 * (count + 1) > 7 * capacity at entry, and leaves
\* the capacity alone otherwise; the scenario with keys 0, 1, 2 holds.
C10_ResizeExactlyAboveThreshold ==
   /\ TestsLoadFactor => IF AboveThreshold THEN Doubles ELSE KeepsCapacity
   /\ ValidInsert => LocatedAfterResize
   /\ Scenario012

\* C10 as amended: the same for every capacity below 729447; from that
\* capacity on the single-precision test (quotient minus 0.7f greater than
\* FLT_EPSILON) still never resizes at or below the threshold but may keep
\* the capacity when 10 * (count + 1) exceeds 7 * capacity.
C10_ResizeAboveThresholdSmallCapacity ==
   /\ TestsLoadFactor =>
         /\ ~AboveThreshold => KeepsCapacity
         /\ (AboveThreshold /\ last.pre.capacity < 729447) => Doubles
         /\ Doubles \/ KeepsCapacity
   /\ ValidInsert => LocatedAfterResize
   /\ Scenario012

C10_Witness ==
   /\ ValidInsert /\ run = 3 /\ last.pre.capacity = 4 /\ StoredContents(last.pre) = {0, 1}
   /\ KeyContent(last.key) = 2 /\ capacity = 8

\* The load of a table header: count / capacity is at most 0.7.
LoadWithinThreshold(t) == 10 * t.nbElements <= 7 * t.capacity

C12_CapacityPositive ==
   /\ capacity > 0
   /\ last.pre.capacity > 0
   /\ ~Halted

\* C13: the capacity never decreases; whenever it changes it becomes exactly
\* twice its previous value, and that happens only inside an insertElement
\* call entered with the load-factor threshold exceeded; removeElement,
\* hasKey and getNumElements never change it.
C13_CapacityOnlyDoubles ==
   /\ capacity >= last.pre.capacity
   /\ Resized => (ValidInsert /\ capacity = 2 * last.pre.capacity /\ AboveThreshold)
   /\ last.op \in {"removeElement", "hasKey", "getNumElements"} => capacity = last.pre.capacity

\* A second doubling of the same table, by an insertElement call.
C13_Witness ==
   /\ ValidInsert /\ capacity = 2 * last.pre.capacity
   /\ last.pre.capacity >= 2 /\ last.pre.nbElements >= 1

\* The call that has just returned is an insertElement during which an
\* allocation failed.
AllocationFailed == "failed" \in DOMAIN last

\* C14: when the allocation of the new element fails inside insertElement,
\* the call returns NULL and the table is in the state it had at the entry of
\* the call: the count is unchanged and no chain is modified, also when the
\* call has passed the load-factor test and resized before that allocation.
C14_EntryAllocationFailureKeepsTable ==
   (AllocationFailed /\ last.failed = "element") =>
      /\ last.ret = NULL
      /\ nbElements = last.pre.nbElements
      /\ elementsArray = last.pre.elementsArray

\* C15: when the allocation of the doubled bucket array fails, the resize
\* aborts, insertElement returns NULL without inserting, and capacity, count,
\* the bucket array and every chain are as before the call.
C15_ArrayAllocationFailureKeepsTable ==
   (AllocationFailed /\ last.failed = "array") =>
      (last.ret = NULL /\ Table = last.pre)

C15_Witness ==
   /\ AllocationFailed /\ last.failed = "array" /\ last.ret = NULL
   /\ LiveEntries(last.pre) >= 2
   /\ ~StoredKey(Table, last.key)

\* The bucket of table t in which an element with this key is stored.
BucketsOf(t, key) ==
   {i \in Buckets(t) : \E j \in 1..Len(Chain(t, i)) : Chain(t, i)[j].key = key}

\* C16: every live element is in the bucket hash(key) mod capacity of the
\* current capacity; hashKey's shortcut for hash(key) < capacity gives that
\* same index; with h(k) = k the key 5 of a table of capacity 4 is in bucket
\* 1; the rehash re-establishes the placement when the capacity changes.
C16_BucketPlacement ==
   /\ \A key \in Keys : BucketsOf(Table, key) \subseteq {hashFunction(key) % capacity}
   /\ \A key \in Keys : hashKey(Table, hashFunction(key)) = hashFunction(key) % capacity
   /\ \A key \in Keys :
         (capacity = 4 /\ KeyContent(key) = 5 /\ StoredKey(Table, key)) =>
            BucketsOf(Table, key) = {1}

\* A resize from capacity 4 to 8 has moved the key 5 from bucket 1 to bucket 5.
C16_Witness ==
   /\ ValidInsert /\ last.pre.capacity = 4 /\ capacity = 8
   /\ \E key \in Keys :
         /\ KeyContent(key) = 5
         /\ BucketsOf(last.pre, key) = {1}
         /\ BucketsOf(Table, key) = {5}

\* The chain of the bucket of the key of the call, in table t.
TargetChain(t) == Chain(t, hashFunction(last.key) % t.capacity)

\* chain[i] is the first element of the chain with a key equivalent to key.
FirstEquivalent(chain, i, key) ==
   /\ i \in 1..Len(chain)
   /\ compareFunction(chain[i].key, key) = 0
   /\ \A j \in 1..(i - 1) : compareFunction(chain[j].key, key) # 0

\* C17: a removeElement(t, k) that finds a match removes exactly one element,
\* the first of the target chain whose key is equivalent to k (the head or
\* the successor of its predecessor), returns that element's value,
\* decrements the count by exactly one, and leaves the capacity, all other
\* elements, their values and their order in the chains unchanged.
C17_RemoveFirstMatch ==
   (ValidRemove /\ StoredKey(last.pre, last.key)) =>
      \E i \in 1..Len(TargetChain(last.pre)) :
         /\ FirstEquivalent(TargetChain(last.pre), i, last.key)
         /\ last.ret = TargetChain(last.pre)[i].value
         /\ nbElements = last.pre.nbElements - 1
         /\ nbElements >= 0
         /\ capacity = last.pre.capacity
         /\ Len(TargetChain(Table)) = Len(TargetChain(last.pre)) - 1
         /\ \A j \in 1..Len(TargetChain(Table)) :
               TargetChain(Table)[j] = TargetChain(last.pre)[IF j < i THEN j ELSE j + 1]
         /\ \A b \in Buckets(Table) :
               b # hashFunction(last.key) % capacity => Chain(Table, b) = Chain(last.pre, b)

\* The removed element had a predecessor and a successor, and the chain holds
\* a second element with an equivalent key further on.
C17_Witness ==
   /\ ValidRemove /\ last.ret # NULL
   /\ \E i \in 2..(Len(TargetChain(last.pre)) - 1) :
         /\ FirstEquivalent(TargetChain(last.pre), i, last.key)
         /\ \E j \in (i + 1)..Len(TargetChain(last.pre)) :
               compareFunction(TargetChain(last.pre)[j].key, last.key) = 0

\* C18: insertElement(t, k, v) for a key k with no equivalent key stored, and
\* no allocation failure, returns (void*)-1, which differs from NULL and from
\* every value; it adds exactly one element (k, v), as the last of its
\* bucket's chain (the head if the bucket was empty), and the count after the
\* call is the count before it plus one, whether the call resized or not.
C18_InsertNewKey ==
   (ValidInsert /\ ~StoredKey(last.pre, last.key)) =>
      /\ last.ret = INSERTED
      /\ INSERTED \notin Values \cup {NULL}
      /\ TargetChain(Table) # <<>>
      /\ TargetChain(Table)[Len(TargetChain(Table))] = Element(last.key, last.value)
      /\ LiveEntries(Table) = LiveEntries(last.pre) + 1
      /\ Copies(Table, last.key) = 1
      /\ nbElements = last.pre.nbElements + 1

\* C19: the stored count is at least the number of live elements in every
\* reachable state, under any interleaving of inserts of new keys, of
\* duplicate keys, removes and resizes; so the decrement of removeElement is
\* never applied to a count of 0 and the count never wraps.
C19_CountCoversLiveEntries ==
   /\ nbElements >= LiveEntries(Table)
   /\ (ValidRemove /\ last.ret # NULL) =>
         (last.pre.nbElements >= 1 /\ nbElements = last.pre.nbElements - 1)

\* A removeElement has taken the last live element of a table whose count a
\* replacing insert had raised above the number of live elements.
C19_Witness ==
   /\ ValidRemove /\ last.ret # NULL
   /\ last.pre.nbElements > LiveEntries(last.pre)
   /\ LiveEntries(Table) = 0

\* C20: a resize never nests: for a table created with a positive capacity
\* no re-insertion of reHashTable satisfies the load-factor test again, so an
\* insertElement call resizes at most once, the capacity after it is the one
\* before or exactly twice that, and every element of the old array is
\* re-inserted, each counted once.
C20_ResizeNeverNests ==
   ValidInsert =>
      /\ capacity \in {last.pre.capacity, 2 * last.pre.capacity}
      /\ NeedsResize(last.pre.nbElements, last.pre.capacity) =>
            /\ ~ReInsertResizes(Handle, createHashTable(2 * last.pre.capacity),
                                Drain(last.pre.elementsArray, 0, last.pre.capacity))
            /\ capacity = 2 * last.pre.capacity
            /\ nbElements = LiveEntries(last.pre) + 1
            /\ \A key \in Keys : StoredKey(last.pre, key) => StoredKey(Table, key)

\* A resize that re-inserted two elements.
C20_Witness ==
   /\ ValidInsert /\ Resized /\ last.ret # NULL
   /\ LiveEntries(last.pre) >= 2

TypeOK ==
   /\ capacity \in 1..MaxCapacity
   /\ nbElements \in Nat
   /\ DOMAIN elementsArray = 0..(capacity - 1)

====
